---- MODULE Spec2Model ----
(***************************************************************************)
(* Model of src/app.py: the PersonalChatbot instance (construction, prompt *)
(* building) and the chat turn (generate, evaluate, regenerate).           *)
(*                                                                         *)
(* A Python str is a sequence of pieces (single characters where the code  *)
(* inspects characters, longer literals elsewhere); + and f-string         *)
(* interpolation are \o.  An Optional[str] is a record [isNone, text].     *)
(***************************************************************************)
EXTENDS Integers, Sequences, FiniteSets, TLC

\* number of chat turns that may be in flight at once (Gradio worker threads)
NumTurns == 2
Turns == 1..NumTurns

----------------------------------------------------------------------------
\* Python values and string primitives

None == [isNone |-> TRUE, text |-> <<>>]
Str(t) == [isNone |-> FALSE, text |-> t]

\* f"{v}": str(v); a str is interpolated as is, None as the text "None"
Format(v) == IF v.isNone THEN <<"None">> ELSE v.text

Whitespace == {" ", "\t", "\n"}

RECURSIVE lstrip(_)
lstrip(s) == IF s # <<>> /\ Head(s) \in Whitespace THEN lstrip(Tail(s)) ELSE s

RECURSIVE rstrip(_)
rstrip(s) ==
    IF s # <<>> /\ s[Len(s)] \in Whitespace
    THEN rstrip(SubSeq(s, 1, Len(s) - 1))
    ELSE s

\* str.strip()
strip(s) == rstrip(lstrip(s))

UpperLetters == <<"A","B","C","D","E","F","G","H","I","J","K","L","M",
                  "N","O","P","Q","R","S","T","U","V","W","X","Y","Z">>
LowerLetters == <<"a","b","c","d","e","f","g","h","i","j","k","l","m",
                  "n","o","p","q","r","s","t","u","v","w","x","y","z">>

LowerChar(c) ==
    IF \E i \in DOMAIN UpperLetters : UpperLetters[i] = c
    THEN LowerLetters[CHOOSE i \in DOMAIN UpperLetters : UpperLetters[i] = c]
    ELSE c

\* str.lower()
lower(s) == [i \in 1..Len(s) |-> LowerChar(s[i])]

\* needle in hay
Contains(hay, needle) ==
    \E i \in 0..(Len(hay) - Len(needle)) :
        SubSeq(hay, i + 1, i + Len(needle)) = needle

\* str.title() on the role names a message dict can carry
title(role) ==
    CASE role = "user" -> "User"
      [] role = "assistant" -> "Assistant"
      [] role = "system" -> "System"
      [] role = "unknown" -> "Unknown"
      [] OTHER -> role

\* sep.join(parts), parts a sequence of texts
RECURSIVE join(_, _)
join(sep, parts) ==
    IF parts = <<>> THEN <<>>
    ELSE IF Len(parts) = 1 THEN parts[1]
    ELSE parts[1] \o sep \o join(sep, Tail(parts))

----------------------------------------------------------------------------
\* Literals of the prompts

Name == <<"Md. Morshed Jamal">>

\* the persona framing of the assistant prompt (base_prompt)
AssistantFraming(name) ==
    <<"You are acting as ">> \o name \o
    <<". You are answering questions on ">> \o name \o
    <<"'s website, ... If you don't know the answer, say so politely and suggest they contact ">>
    \o name \o <<" directly.">>

AssistantClosing(name) ==
    <<"\n\nWith this context, please chat with the user, always staying in character as ">>
    \o name \o <<".">>

\* the judge framing of the evaluator prompt (evaluator_base)
EvaluatorFraming(name) ==
    <<"You are an evaluator that decides whether a response to a question is acceptable quality. ... The Agent is playing the role of ">>
    \o name \o <<" and is representing ">> \o name \o
    <<" on their website. ... The Agent has been provided with context on ">>
    \o name \o <<". Here's the information:">>

EvaluatorClosing ==
    <<"\n\nWith this context, please evaluate the latest response, replying with whether the response is acceptable and your feedback.">>

SummaryHeader == <<"\n\n## Summary:\n">>
LinkedInHeader == <<"\n\n## LinkedIn Profile:\n">>

PigLatinInstruction ==
    <<"\n\nIMPORTANT: Everything in your reply needs to be in pig latin - it is mandatory that you respond only and entirely in pig latin.">>

PromptForInput ==
    <<"Please ask me a question about my background, experience, or skills!">>

Apology(name) ==
    <<"I apologize, but I'm experiencing technical difficulties. Please try again later or contact ">>
    \o name \o <<" directly.">>

Keyword == <<"p", "a", "t", "e", "n", "t">>

----------------------------------------------------------------------------
\* Construction

\* __init__, before the three helper calls
NewInstance ==
    [name |-> Name,
     openai_client |-> "None",
     gemini_client |-> "None",
     linkedin_content |-> <<>>,
     summary_content |-> <<>>,
     system_prompt |-> <<>>,
     evaluator_system_prompt |-> <<>>]

\* me/linkedin.pdf as the loader can find it: absent, unreadable, or a
\* sequence of pages whose extract_text() is a text, "" or None
PdfFiles ==
    { [exists |-> FALSE, raises |-> FALSE, pages |-> <<>>],
      [exists |-> TRUE, raises |-> TRUE, pages |-> <<>>],
      [exists |-> TRUE, raises |-> FALSE, pages |-> <<None, Str(<<>>)>>],
      [exists |-> TRUE, raises |-> FALSE,
       pages |-> <<Str(<<"Experience: engineer">>), None,
                   Str(<<"Education: BSc">>)>>] }

\* me/summary.txt: absent, unreadable, whitespace only, or text with
\* surrounding whitespace
SummaryFiles ==
    { [exists |-> FALSE, raises |-> FALSE, text |-> <<>>],
      [exists |-> TRUE, raises |-> TRUE, text |-> <<>>],
      [exists |-> TRUE, raises |-> FALSE, text |-> <<" ", "\n">>],
      [exists |-> TRUE, raises |-> FALSE,
       text |-> <<" ", "I am a software engineer.", "\n">>] }

\* the pages that pass `if text:`
RECURSIVE linkedin_parts(_)
linkedin_parts(pages) ==
    IF pages = <<>> THEN <<>>
    ELSE IF Head(pages).isNone \/ Head(pages).text = <<>>
         THEN linkedin_parts(Tail(pages))
         ELSE <<Head(pages).text>> \o linkedin_parts(Tail(pages))

\* _load_profile_data: one try block around both loads; an exception leaves
\* what was not yet assigned at its initial value
_load_profile_data(obj, pdf, summary) ==
    LET afterPdf ==
            IF pdf.exists
            THEN [obj EXCEPT !.linkedin_content =
                                join(<<"\n">>, linkedin_parts(pdf.pages))]
            ELSE obj
    IN  IF pdf.exists /\ pdf.raises THEN obj
        ELSE IF ~summary.exists THEN afterPdf
        ELSE IF summary.raises THEN afterPdf
        ELSE [afterPdf EXCEPT !.summary_content = strip(summary.text)]

\* _create_prompts with the Summary section appended without the presence
\* check
_create_prompts_unconditional(obj) ==
    LET context ==
            SummaryHeader \o obj.summary_content
            \o (IF obj.linkedin_content # <<>>
                THEN LinkedInHeader \o obj.linkedin_content ELSE <<>>)
    IN  [obj EXCEPT
            !.system_prompt =
                AssistantFraming(obj.name) \o context
                \o AssistantClosing(obj.name),
            !.evaluator_system_prompt =
                EvaluatorFraming(obj.name) \o context \o EvaluatorClosing]

\* _create_prompts
_create_prompts(obj) ==
    LET base_prompt ==
            AssistantFraming(obj.name)
            \o (IF obj.summary_content # <<>>
                THEN SummaryHeader \o obj.summary_content ELSE <<>>)
            \o (IF obj.linkedin_content # <<>>
                THEN LinkedInHeader \o obj.linkedin_content ELSE <<>>)
        evaluator_base ==
            EvaluatorFraming(obj.name)
            \o (IF obj.summary_content # <<>>
                THEN SummaryHeader \o obj.summary_content ELSE <<>>)
            \o (IF obj.linkedin_content # <<>>
                THEN LinkedInHeader \o obj.linkedin_content ELSE <<>>)
    IN  [obj EXCEPT
            !.system_prompt = base_prompt \o AssistantClosing(obj.name),
            !.evaluator_system_prompt = evaluator_base \o EvaluatorClosing]

----------------------------------------------------------------------------
\* The chat turn: inputs and outcomes of the external calls

\* chat's history argument: a list of {role, content} dicts
EmptyHistory == <<>>
SomeHistory ==
    <<[role |-> "user", content |-> <<"Hello">>],
      [role |-> "assistant", content |-> <<"Hi, how can I help?">>]>>

\* chat's arguments (message, history): the empty and a whitespace-only
\* message with either history, a message with the keyword in mixed case,
\* and one with the keyword's letters broken by a space
ChatInputs ==
    ({ <<>>, <<" ", "\n">> } \X { EmptyHistory, SomeHistory })
    \cup
    { << <<"a", " ", "P", "a", "T", "e", "N", "t", "?">>, SomeHistory >>,
      << <<"p", "a", "t", "e", "n", " ", "t">>, EmptyHistory >> }

\* what openai_client.chat.completions.create(...) followed by
\* response.choices[0].message.content yields: a text, None (the SDK types
\* content as Optional[str]), or an exception
GenOutcomes ==
    { [raises |-> FALSE, content |-> Str(<<"I have led several projects.">>)],
      [raises |-> FALSE, content |-> None],
      [raises |-> TRUE, content |-> None] }

\* the same call when regenerate_response makes it: another text, or an
\* exception
RegenOutcomes ==
    { [raises |-> FALSE,
       content |-> Str(<<"I led the billing and search projects.">>)],
      [raises |-> TRUE, content |-> None] }

NoParsed == [isNone |-> TRUE, is_acceptable |-> FALSE, feedback |-> <<>>]

Evaluation(is_acceptable, feedback) ==
    [isNone |-> FALSE, is_acceptable |-> is_acceptable, feedback |-> feedback]

\* what gemini_client.beta.chat.completions.parse(...) followed by
\* response.choices[0].message.parsed yields: an Evaluation, None (no parsed
\* content), or an exception (transport, API or schema validation error)
EvalOutcomes ==
    { [raises |-> FALSE, parsed |-> Evaluation(TRUE, <<"Good answer.">>)],
      [raises |-> FALSE, parsed |-> Evaluation(FALSE, <<"Too vague.">>)],
      [raises |-> FALSE, parsed |-> NoParsed],
      [raises |-> TRUE, parsed |-> NoParsed] }

\* dict.get(key, default)
Get(msg, key, default) == IF key \in DOMAIN msg THEN msg[key] ELSE default

\* _format_conversation_history
_format_conversation_history(history) ==
    IF history = <<>> THEN <<"No previous conversation.">>
    ELSE join(<<"\n\n">>,
              [i \in 1..Len(history) |->
                  <<title(Get(history[i], "role", "unknown")), ": ">>
                  \o Get(history[i], "content", <<>>)])

\* _generate_response retrying the request once after an exception
_generate_response_retry(obj, message, history, system_prompt, outcome) ==
    LET messages ==
            <<[role |-> "system", content |-> system_prompt]>>
            \o history
            \o <<[role |-> "user", content |-> message]>>
        ret == IF outcome.raises THEN Str(Apology(obj.name))
               ELSE outcome.content
        call == [kind |-> "generate", messages |-> messages,
                 failed |-> outcome.raises, ret |-> ret]
    IN  [self |-> obj,
         ret |-> ret,
         calls |-> IF outcome.raises THEN <<call, call>> ELSE <<call>>]

\* _generate_response: the request is recorded in calls; any exception is
\* turned into the apology
_generate_response(obj, message, history, system_prompt, outcome) ==
    LET messages ==
            <<[role |-> "system", content |-> system_prompt]>>
            \o history
            \o <<[role |-> "user", content |-> message]>>
        ret == IF outcome.raises THEN Str(Apology(obj.name))
               ELSE outcome.content
    IN  [self |-> obj,
         ret |-> ret,
         calls |-> <<[kind |-> "generate", messages |-> messages,
                      failed |-> outcome.raises, ret |-> ret]>>]

\* evaluate_response failing closed: an exception yields a rejection
evaluate_response_fail_closed(obj, reply, message, history, outcome) ==
    LET ret == IF outcome.raises
               THEN Evaluation(FALSE, <<"Evaluation service unavailable">>)
               ELSE outcome.parsed
    IN  [self |-> obj,
         ret |-> ret,
         calls |-> <<[kind |-> "evaluate",
                      messages |->
                          <<[role |-> "system",
                             content |-> obj.evaluator_system_prompt]>>,
                      failed |-> outcome.raises,
                      ret |-> IF ret.isNone THEN None ELSE Str(ret.feedback)]>>]

\* evaluate_response: any exception yields the acceptable default
evaluate_response(obj, reply, message, history, outcome) ==
    LET conversation_history == _format_conversation_history(history)
        user_prompt ==
            <<"Here's the conversation between the User and the Agent:\n\n">>
            \o conversation_history
            \o <<"\n\n", "Here's the latest message from the User:\n\n">>
            \o message
            \o <<"\n\n", "Here's the latest response from the Agent:\n\n">>
            \o Format(reply)
            \o <<"\n\n", "Please evaluate the response, replying with whether it is acceptable and your feedback.">>
        messages ==
            <<[role |-> "system", content |-> obj.evaluator_system_prompt],
              [role |-> "user", content |-> user_prompt]>>
        ret == IF outcome.raises
               THEN Evaluation(TRUE, <<"Evaluation service unavailable">>)
               ELSE outcome.parsed
    IN  [self |-> obj,
         ret |-> ret,
         calls |-> <<[kind |-> "evaluate", messages |-> messages,
                      failed |-> outcome.raises,
                      ret |-> IF ret.isNone THEN None ELSE Str(ret.feedback)]>>]

\* the rejection block without the evaluator's feedback
RejectionBlock_no_feedback(original_reply, feedback) ==
    <<"\n\n## Previous answer rejected\n",
      "You just tried to reply, but the quality control rejected your reply.\n",
      "## Your attempted answer:\n">>
    \o Format(original_reply)
    \o <<"\n\n", "Please provide a better response that addresses the feedback.">>

\* the rejection block regenerate_response appends
RejectionBlock(original_reply, feedback) ==
    <<"\n\n## Previous answer rejected\n",
      "You just tried to reply, but the quality control rejected your reply.\n",
      "## Your attempted answer:\n">>
    \o Format(original_reply)
    \o <<"\n\n", "## Reason for rejection:\n">>
    \o feedback
    \o <<"\n\n", "Please provide a better response that addresses the feedback.">>

\* regenerate_response storing the augmented prompt in the instance
regenerate_response_stores(obj, original_reply, message, history, feedback, outcome) ==
    LET updated_system_prompt ==
            obj.system_prompt \o RejectionBlock(original_reply, feedback)
    IN  _generate_response(
            [obj EXCEPT !.system_prompt = updated_system_prompt],
            message, history, updated_system_prompt, outcome)

\* regenerate_response
regenerate_response(obj, original_reply, message, history, feedback, outcome) ==
    LET updated_system_prompt ==
            obj.system_prompt \o RejectionBlock(original_reply, feedback)
    IN  _generate_response(obj, message, history, updated_system_prompt,
                           outcome)

\* the blank test without strip(): `not message`
IsBlank_no_strip(message) == message = <<>>

\* chat: `not message.strip()`
IsBlank(message) == strip(message) = <<>>

\* chat: the system prompt of the initial generation
system_to_use(obj, message) ==
    IF Contains(lower(message), Keyword)
    THEN obj.system_prompt \o PigLatinInstruction
    ELSE obj.system_prompt

\* the branch with the condition inverted
chat_decide_inverted(evaluation) ==
    IF evaluation.isNone THEN "except"
    ELSE IF ~evaluation.is_acceptable THEN "return"
    ELSE "regenerate"

\* chat: what follows the evaluation; reading is_acceptable of a None
\* evaluation raises AttributeError, which the outer except catches
chat_decide(evaluation) ==
    IF evaluation.isNone THEN "except"
    ELSE IF evaluation.is_acceptable THEN "return"
    ELSE "regenerate"

----------------------------------------------------------------------------
VARIABLES phase, self, turn

vars == <<phase, self, turn>>

IdleTurn ==
    [pc |-> "idle", message |-> <<>>, history |-> <<>>, reply |-> None,
     evaluation |-> NoParsed, result |-> None, calls |-> <<>>]

Init ==
    /\ phase = "new"
    /\ self = NewInstance
    /\ turn = [t \in Turns |-> IdleTurn]

\* _initialize_clients: both keys must be in the environment, otherwise the
\* constructor raises and no instance exists
InitializeClients ==
    /\ phase = "new"
    /\ \E openai_api_key \in BOOLEAN, google_api_key \in BOOLEAN :
          IF openai_api_key /\ google_api_key
          THEN /\ phase' = "clients"
               /\ self' = [self EXCEPT !.openai_client = "OpenAI",
                                       !.gemini_client = "OpenAI"]
          ELSE /\ phase' = "failed"
               /\ self' = [self EXCEPT
                             !.openai_client =
                                 IF openai_api_key THEN "OpenAI" ELSE "None"]
    /\ UNCHANGED turn

LoadProfileData ==
    /\ phase = "clients"
    /\ \E pdf \in PdfFiles, summary \in SummaryFiles :
          self' = _load_profile_data(self, pdf, summary)
    /\ phase' = "loaded"
    /\ UNCHANGED turn

CreatePrompts ==
    /\ phase = "loaded"
    /\ self' = _create_prompts(self)
    /\ phase' = "ready"
    /\ UNCHANGED turn

\* chat, up to the return of the first _generate_response
ChatGenerate(t) ==
    /\ phase = "ready"
    /\ turn[t].pc = "idle"
    /\ \E input \in ChatInputs, outcome \in GenOutcomes :
          LET message == input[1]
              history == input[2]
          IN
          IF IsBlank(message)
          THEN /\ turn' = [turn EXCEPT ![t] =
                            [IdleTurn EXCEPT !.pc = "done",
                                             !.message = message,
                                             !.history = history,
                                             !.result = Str(PromptForInput)]]
               /\ self' = self
          ELSE LET r == _generate_response(self, message, history,
                                           system_to_use(self, message),
                                           outcome)
               IN  /\ turn' = [turn EXCEPT ![t] =
                                [IdleTurn EXCEPT !.pc = "evaluate",
                                                 !.message = message,
                                                 !.history = history,
                                                 !.reply = r.ret,
                                                 !.calls = r.calls]]
                   /\ self' = r.self
    /\ UNCHANGED phase

\* chat, from evaluate_response to the branch on the evaluation
ChatEvaluate(t) ==
    /\ phase = "ready"
    /\ turn[t].pc = "evaluate"
    /\ \E outcome \in EvalOutcomes :
          LET r == evaluate_response(self, turn[t].reply, turn[t].message,
                                     turn[t].history, outcome)
              next == chat_decide(r.ret)
              cur == [turn[t] EXCEPT !.evaluation = r.ret,
                                     !.calls = @ \o r.calls]
          IN  /\ turn' = [turn EXCEPT ![t] =
                           CASE next = "return" ->
                                  [cur EXCEPT !.pc = "done",
                                              !.result = cur.reply]
                             [] next = "except" ->
                                  [cur EXCEPT !.pc = "done",
                                              !.result = Str(Apology(r.self.name))]
                             [] OTHER ->
                                  [cur EXCEPT !.pc = "regenerate"]]
              /\ self' = r.self
    /\ UNCHANGED phase

\* chat, regenerate_response and the return of its result
ChatRegenerate(t) ==
    /\ phase = "ready"
    /\ turn[t].pc = "regenerate"
    /\ \E outcome \in RegenOutcomes :
          LET r == regenerate_response(self, turn[t].reply, turn[t].message,
                                       turn[t].history,
                                       turn[t].evaluation.feedback, outcome)
          IN  /\ turn' = [turn EXCEPT ![t] =
                           [@ EXCEPT !.pc = "done",
                                     !.result = r.ret,
                                     !.calls = @ \o r.calls]]
              /\ self' = r.self
    /\ UNCHANGED phase

\* the caller has the result; the worker takes the next turn
ChatReturn(t) ==
    /\ turn[t].pc = "done"
    /\ turn' = [turn EXCEPT ![t] = IdleTurn]
    /\ UNCHANGED <<phase, self>>

Next ==
    \/ InitializeClients
    \/ LoadProfileData
    \/ CreatePrompts
    \/ \E t \in Turns : ChatGenerate(t)
    \/ \E t \in Turns : ChatEvaluate(t)
    \/ \E t \in Turns : ChatRegenerate(t)
    \/ \E t \in Turns : ChatReturn(t)

Spec == Init /\ [][Next]_vars

----------------------------------------------------------------------------
\* Vocabulary of the properties

\* the kinds of the external calls a turn has issued, in order
RECURSIVE Kinds(_)
Kinds(calls) ==
    IF calls = <<>> THEN <<>> ELSE <<Head(calls).kind>> \o Kinds(Tail(calls))

IsPrefix(a, b) == Len(a) <= Len(b) /\ SubSeq(b, 1, Len(a)) = a

StartsWith(text, prefix) == IsPrefix(prefix, text)

EndsWith(text, suffix) ==
    /\ Len(suffix) <= Len(text)
    /\ SubSeq(text, Len(text) - Len(suffix) + 1, Len(text)) = suffix

\* every character of the message is whitespace (the empty message included)
AllWhitespace(message) == \A i \in DOMAIN message : message[i] \in Whitespace

\* the message has the letters of the keyword, in any case, in a row
HasKeyword(message) ==
    \E i \in 0..(Len(message) - Len(Keyword)) :
        \A k \in DOMAIN Keyword :
            message[i + k] = Keyword[k] \/ LowerChar(message[i + k]) = Keyword[k]

\* the system prompt an issued call carried
SystemOf(call) == call.messages[1].content

\* the part of a Generator request after the system message
ConversationOf(call) == SubSeq(call.messages, 2, Len(call.messages))

\* what a Generator request for this turn carries after the system message
TurnConversation(tr) ==
    tr.history \o <<[role |-> "user", content |-> tr.message]>>

\* the turn ended after a verdict of not acceptable
Rejected(tr) ==
    /\ tr.pc = "done"
    /\ Len(tr.calls) >= 2
    /\ ~tr.evaluation.isNone
    /\ ~tr.evaluation.is_acceptable

----------------------------------------------------------------------------
\* C1: when the verdict on the first reply is not acceptable, the turn makes
\* exactly one more Generator call, with the same message and history, whose
\* system prompt contains the rejected reply and the feedback verbatim, and
\* chat returns that call's output.
C1_RegeneratesOnce ==
    \A t \in Turns :
        Rejected(turn[t]) =>
            /\ Kinds(turn[t].calls) = <<"generate", "evaluate", "generate">>
            /\ ConversationOf(turn[t].calls[3]) = TurnConversation(turn[t])
            /\ ConversationOf(turn[t].calls[3]) = ConversationOf(turn[t].calls[1])
            /\ Contains(SystemOf(turn[t].calls[3]), Format(turn[t].calls[1].ret))
            /\ Contains(SystemOf(turn[t].calls[3]), turn[t].evaluation.feedback)
            /\ turn[t].result = turn[t].calls[3].ret

C1_Witness ==
    \E t \in Turns :
        /\ Rejected(turn[t])
        /\ ~turn[t].calls[1].ret.isNone
        /\ turn[t].history # <<>>
        /\ ~turn[t].calls[3].failed
        /\ turn[t].result # turn[t].calls[1].ret

\* C2: when the evaluator returns acceptable=true, chat returns the output of
\* the first and only Generator call, and no regeneration is made.
C2_AcceptedReplyUnchanged ==
    \A t \in Turns :
        ( /\ turn[t].pc = "done"
          /\ Len(turn[t].calls) >= 2
          /\ ~turn[t].calls[2].failed
          /\ ~turn[t].evaluation.isNone
          /\ turn[t].evaluation.is_acceptable )
        => /\ Kinds(turn[t].calls) = <<"generate", "evaluate">>
           /\ turn[t].result = turn[t].calls[1].ret

C2_Witness ==
    \E t \in Turns :
        /\ turn[t].pc = "done"
        /\ Len(turn[t].calls) = 2
        /\ ~turn[t].calls[1].failed
        /\ ~turn[t].calls[2].failed
        /\ ~turn[t].evaluation.isNone
        /\ turn[t].evaluation.is_acceptable
        /\ turn[t].result = Str(<<"I have led several projects.">>)

\* C3 (as claimed): when the first Generator call fails, chat returns the
\* apology and the turn makes no Evaluator call and no regeneration call.
C3_NoCallsAfterGeneratorFailure ==
    \A t \in Turns :
        (turn[t].calls # <<>> /\ turn[t].calls[1].failed) =>
            /\ Len(turn[t].calls) = 1
            /\ turn[t].pc = "done" => turn[t].result = Str(Apology(Name))

\* C4: when the Evaluator call fails, the verdict is acceptable, chat returns
\* the first Generator output unchanged and makes no regeneration call.
C4_EvaluatorFailsOpen ==
    \A t \in Turns :
        (Len(turn[t].calls) >= 2 /\ turn[t].calls[2].failed) =>
            /\ turn[t].pc = "done"
            /\ ~turn[t].evaluation.isNone
            /\ turn[t].evaluation.is_acceptable
            /\ Kinds(turn[t].calls) = <<"generate", "evaluate">>
            /\ turn[t].result = turn[t].calls[1].ret

C4_Witness ==
    \E t \in Turns :
        /\ turn[t].pc = "done"
        /\ Len(turn[t].calls) = 2
        /\ turn[t].calls[2].failed
        /\ ~turn[t].calls[1].failed
        /\ turn[t].result = Str(<<"I have led several projects.">>)

\* C5: for every history, a turn whose message is empty or whitespace only
\* returns the fixed prompt-for-input string and makes no external call.
C5_BlankMessageNoCalls ==
    \A t \in Turns :
        (turn[t].pc # "idle" /\ AllWhitespace(turn[t].message)) =>
            /\ turn[t].pc = "done"
            /\ turn[t].result = Str(PromptForInput)
            /\ turn[t].calls = <<>>

C5_Witness ==
    \E t \in Turns :
        /\ turn[t].pc = "done"
        /\ turn[t].message # <<>>
        /\ AllWhitespace(turn[t].message)
        /\ turn[t].history # <<>>
        /\ turn[t].calls = <<>>

\* C6 (as claimed): the system prompt of every Generator call of a turn, the
\* initial and the regeneration call, includes the pig latin instruction
\* exactly when the message contains the keyword in any letter case.
C6_InstructionInEveryGeneratorCall ==
    \A t \in Turns :
        \A i \in DOMAIN turn[t].calls :
            turn[t].calls[i].kind = "generate" =>
                ( Contains(SystemOf(turn[t].calls[i]), PigLatinInstruction)
                  <=> HasKeyword(turn[t].message) )

\* C7 (as claimed): chat ends every turn by returning a text, and a failure
\* that no component boundary absorbed (an evaluation that is None) yields
\* the apology.
C7_AlwaysReturnsText ==
    \A t \in Turns :
        turn[t].pc = "done" =>
            /\ ~turn[t].result.isNone
            /\ (Len(turn[t].calls) = 2 /\ turn[t].evaluation.isNone)
                   => turn[t].result = Str(Apology(Name))

\* C8: the external calls of a turn are a prefix of generate, evaluate,
\* regenerate: at most three, the Evaluator call only after the first
\* Generator call returned, the regeneration only after a verdict of not
\* acceptable, nothing after the regeneration.
C8_CallsArePrefix ==
    \A t \in Turns :
        /\ IsPrefix(Kinds(turn[t].calls), <<"generate", "evaluate", "generate">>)
        /\ Len(turn[t].calls) = 3 =>
               /\ ~turn[t].evaluation.isNone
               /\ ~turn[t].evaluation.is_acceptable
               /\ turn[t].pc = "done"

C8_Witness ==
    \E t \in Turns :
        /\ turn[t].pc = "done"
        /\ Len(turn[t].calls) = 3
        /\ turn[t].calls[1].failed
        /\ turn[t].calls[3].failed

\* every issued call carries the prompts as they were built at construction
CallsUseInitialPrompts ==
    phase = "ready" =>
        \A t \in Turns :
            \A i \in DOMAIN turn[t].calls :
                IF turn[t].calls[i].kind = "evaluate"
                THEN SystemOf(turn[t].calls[i]) = _create_prompts(self).evaluator_system_prompt
                ELSE StartsWith(SystemOf(turn[t].calls[i]),
                                _create_prompts(self).system_prompt)

\* C9: once the instance is built, no step of any turn, in any interleaving,
\* changes the two system prompts or the two profile texts, and every call
\* is built from those initial prompts.
C9_InstanceReadOnly ==
    /\ [][phase = "ready" =>
            /\ self'.system_prompt = self.system_prompt
            /\ self'.evaluator_system_prompt = self.evaluator_system_prompt
            /\ self'.summary_content = self.summary_content
            /\ self'.linkedin_content = self.linkedin_content]_vars
    /\ [](CallsUseInitialPrompts)

C9_Witness ==
    \E t \in Turns, u \in Turns :
        /\ t # u
        /\ turn[t].pc = "done"
        /\ Len(turn[t].calls) = 3
        /\ HasKeyword(turn[t].message)
        /\ turn[u].pc = "regenerate"
        /\ self.summary_content # <<>>

\* C10: whatever profile texts were loaded, both prompts keep the persona
\* framing and the closing instruction, and carry the Summary section exactly
\* when the summary text is non-empty and the LinkedIn Profile section
\* exactly when the profile text is non-empty.
C10_PromptSections ==
    phase = "ready" =>
        /\ StartsWith(self.system_prompt, AssistantFraming(Name))
        /\ EndsWith(self.system_prompt, AssistantClosing(Name))
        /\ StartsWith(self.evaluator_system_prompt, EvaluatorFraming(Name))
        /\ EndsWith(self.evaluator_system_prompt, EvaluatorClosing)
        /\ Contains(self.system_prompt, SummaryHeader)
               <=> self.summary_content # <<>>
        /\ Contains(self.evaluator_system_prompt, SummaryHeader)
               <=> self.summary_content # <<>>
        /\ Contains(self.system_prompt, LinkedInHeader)
               <=> self.linkedin_content # <<>>
        /\ Contains(self.evaluator_system_prompt, LinkedInHeader)
               <=> self.linkedin_content # <<>>
        /\ self.summary_content # <<>> =>
               Contains(self.system_prompt,
                        SummaryHeader \o self.summary_content)
        /\ self.linkedin_content # <<>> =>
               Contains(self.system_prompt,
                        LinkedInHeader \o self.linkedin_content)

C10_Witness ==
    /\ phase = "ready"
    /\ self.summary_content = <<>>
    /\ self.linkedin_content # <<>>

====
